---- MODULE Spec2Model ----
(***************************************************************************)
(* Model of lkjmc/main.py: the instruction parser                          *)
(* (parse_commands_from_file), the placement loop of __main__ and the      *)
(* delivery of each generated command by send_minecraft_command.           *)
(*                                                                         *)
(* Text is modelled as it is in Python: a str is a sequence of one-        *)
(* character strings, so strip, startswith, re.match, replace, lower and   *)
(* the f-strings are computed character by character.                      *)
(***************************************************************************)
EXTENDS Integers, Sequences, FiniteSets, TLC

(***************************************************************************)
(* Bounds of the model.                                                    *)
(***************************************************************************)
\* largest number of lines of the command file
MaxLines == 3
\* longest payload drawn for the escaping specification
MaxPayloadLen == 4

(***************************************************************************)
(* Settings (main.py lines 23-29) and the literals of the code.            *)
(***************************************************************************)
INITIAL_BASE_X == 0
INITIAL_BASE_Y == 60
INITIAL_BASE_Z == 0
COMMAND_BLOCK_FACING == <<"u","p">>
COMMAND_BLOCK_CONDITION == <<"f","a","l","s","e">>
\* the literal 128 of the move branch
CLEAR_UPPER_Y == 128
\* 'true', the literal CHAIN_COMMAND_BLOCK_AUTO.lower() is compared with
TRUE_STR == <<"t","r","u","e">>
\* '# comment', the argument of startswith
COMMENT_MARKER == <<"#"," ","c","o","m","m","e","n","t">>
\* '# move,', the literal head of the move pattern
MOVE_MARKER == <<"#"," ","m","o","v","e",",">>
FILL_NAME == <<"f","i","l","l"," ">>
FILL_TAIL == <<" ","m","i","n","e","c","r","a","f","t",":","a","i","r"," ","r","e","p","l","a","c","e">>
SETBLOCK_NAME == <<"s","e","t","b","l","o","c","k"," ">>
REPEATING_ID == <<"m","i","n","e","c","r","a","f","t",":","r","e","p","e","a","t","i","n","g","_","c","o","m","m","a","n","d","_","b","l","o","c","k">>
CHAIN_ID == <<"m","i","n","e","c","r","a","f","t",":","c","h","a","i","n","_","c","o","m","m","a","n","d","_","b","l","o","c","k">>
FACING_EQ == <<"[","f","a","c","i","n","g","=">>
COND_EQ == <<",","c","o","n","d","i","t","i","o","n","a","l","=">>
NBT_OPEN == <<"{","C","o","m","m","a","n","d",":","\"">>
NBT_AUTO == <<"\"",",","a","u","t","o",":">>
REPLACE_TAIL == <<" ","r","e","p","l","a","c","e">>
AUTO_0B == <<"0","b">>
AUTO_1B == <<"1","b">>
NO_TEXT == << >>

(***************************************************************************)
(* Python str operations.                                                  *)
(***************************************************************************)
\* the characters str.strip() removes, among those the inputs use
WhiteSpace == {" ", "\t", "\n"}
Digits == {"0","1","2","3","4","5","6","7","8","9"}

DigitVal(c) ==
  CASE c = "0" -> 0 [] c = "1" -> 1 [] c = "2" -> 2 [] c = "3" -> 3
    [] c = "4" -> 4 [] c = "5" -> 5 [] c = "6" -> 6 [] c = "7" -> 7
    [] c = "8" -> 8 [] c = "9" -> 9

DigitChar(d) == <<"0","1","2","3","4","5","6","7","8","9">>[d + 1]

RECURSIVE lstrip(_)
lstrip(s) ==
  IF s # << >> /\ Head(s) \in WhiteSpace THEN lstrip(Tail(s)) ELSE s

RECURSIVE rstrip(_)
rstrip(s) ==
  IF s # << >> /\ s[Len(s)] \in WhiteSpace
    THEN rstrip(SubSeq(s, 1, Len(s) - 1))
    ELSE s

\* str.strip()
strip(s) == rstrip(lstrip(s))

\* str.startswith(prefix)
startswith(s, prefix) ==
  Len(s) >= Len(prefix) /\ SubSeq(s, 1, Len(prefix)) = prefix

UPPER_CASE == <<"A","B","C","D","E","F","G","H","I","J","K","L","M","N","O","P","Q","R","S","T","U","V","W","X","Y","Z">>
LOWER_CASE == <<"a","b","c","d","e","f","g","h","i","j","k","l","m","n","o","p","q","r","s","t","u","v","w","x","y","z">>

LowerChar(c) ==
  IF \E i \in 1..Len(UPPER_CASE) : UPPER_CASE[i] = c
    THEN LOWER_CASE[CHOOSE i \in 1..Len(UPPER_CASE) : UPPER_CASE[i] = c]
    ELSE c

\* str.lower()
lower(s) == [i \in 1..Len(s) |-> LowerChar(s[i])]

\* str.replace(old, new) for a one-character old: every occurrence, left to right
RECURSIVE replace(_, _, _)
replace(s, old, new) ==
  IF s = << >> THEN << >>
  ELSE (IF Head(s) = old THEN new ELSE <<Head(s)>>) \o replace(Tail(s), old, new)

RECURSIVE NatStr(_)
NatStr(n) ==
  IF n < 10 THEN <<DigitChar(n)>> ELSE NatStr(n \div 10) \o <<DigitChar(n % 10)>>

\* str(n) of an int, as an f-string renders it
IntStr(n) == IF n < 0 THEN <<"-">> \o NatStr(0 - n) ELSE NatStr(n)

(***************************************************************************)
(* escape_command_string (main.py lines 53-55).                            *)
(***************************************************************************)
\* mutant: the quotes are escaped before the backslashes are doubled
escape_command_string_quotes_first(cmd_str) ==
  replace(replace(cmd_str, "\"", <<"\\","\"">>), "\\", <<"\\","\\">>)

escape_command_string(cmd_str) ==
  replace(replace(cmd_str, "\\", <<"\\","\\">>), "\"", <<"\\","\"">>)

(***************************************************************************)
(* The move pattern of line 67, matched by re.match at the start of the    *)
(* stripped line: the literal "# move," and then, three times, any number  *)
(* of spaces and a captured numeral (an optional "-", one or more digits,  *)
(* an optional ".", any number of digits), the numerals separated by a     *)
(* comma.  Positions are 1-based; an end position is the index after the   *)
(* last matched character, and 0 stands for "no match".  Every quantifier  *)
(* is greedy, and what follows a numeral (a comma) is none of the          *)
(* characters a numeral is made of, so the greedy end is the only end the  *)
(* match can have.                                                         *)
(***************************************************************************)
RECURSIVE SpacesEnd(_, _)
SpacesEnd(s, i) ==
  IF i <= Len(s) /\ s[i] = " " THEN SpacesEnd(s, i + 1) ELSE i

\* the end of the longest run of digits at position i (a numeral may be
\* hundreds of digits long, so the run is found without recursion)
DigitsEnd(s, i) ==
  LET stops == {j \in i..(Len(s) + 1) : j = Len(s) + 1 \/ s[j] \notin Digits}
  IN  CHOOSE j \in stops : \A k \in stops : j <= k

\* one numeral at position i: -? digits+ .? digits
NumeralEnd(s, i) ==
  LET j0 == IF i <= Len(s) /\ s[i] = "-" THEN i + 1 ELSE i
      j1 == DigitsEnd(s, j0)
      j2 == IF j1 <= Len(s) /\ s[j1] = "." THEN j1 + 1 ELSE j1
  IN  IF j1 = j0 THEN 0 ELSE DigitsEnd(s, j2)

\* a comma and the spaces after it, at position i
CommaEnd(s, i) ==
  IF i <= Len(s) /\ s[i] = "," THEN SpacesEnd(s, i + 1) ELSE 0

NoMatch == [matched |-> FALSE, g1 |-> << >>, g2 |-> << >>, g3 |-> << >>]

\* the match continued from the third numeral, which begins at b3
match_third(s, b1, e1, b2, e2, b3, e3) ==
  IF e3 = 0 THEN NoMatch
  ELSE [matched |-> TRUE,
        g1 |-> SubSeq(s, b1, e1 - 1),
        g2 |-> SubSeq(s, b2, e2 - 1),
        g3 |-> SubSeq(s, b3, e3 - 1)]

match_second_comma(s, b1, e1, b2, e2, b3) ==
  IF b3 = 0 THEN NoMatch
  ELSE match_third(s, b1, e1, b2, e2, b3, NumeralEnd(s, b3))

match_second(s, b1, e1, b2, e2) ==
  IF e2 = 0 THEN NoMatch
  ELSE match_second_comma(s, b1, e1, b2, e2, CommaEnd(s, e2))

match_first_comma(s, b1, e1, b2) ==
  IF b2 = 0 THEN NoMatch
  ELSE match_second(s, b1, e1, b2, NumeralEnd(s, b2))

match_first(s, b1, e1) ==
  IF e1 = 0 THEN NoMatch
  ELSE match_first_comma(s, b1, e1, CommaEnd(s, e1))

match_from(s, b1) == match_first(s, b1, NumeralEnd(s, b1))

\* re.match(pattern, line_content): the three groups, or no match
move_match(s) ==
  IF ~startswith(s, MOVE_MARKER) THEN NoMatch
  ELSE match_from(s, SpacesEnd(s, Len(MOVE_MARKER) + 1))

(***************************************************************************)
(* int(float(group)) of lines 70-72.                                       *)
(***************************************************************************)
\* the part of a numeral before its '.', without the sign
IntDigits(g) ==
  LET u == IF g # << >> /\ Head(g) \in {"-", "+"} THEN Tail(g) ELSE g
  IN  SubSeq(u, 1, DigitsEnd(u, 1) - 1)

\* the part of a numeral after its '.'
FracDigits(g) ==
  LET u == IF g # << >> /\ Head(g) \in {"-", "+"} THEN Tail(g) ELSE g
      d == DigitsEnd(u, 1)
  IN  IF d <= Len(u) /\ u[d] = "." THEN SubSeq(u, d + 1, Len(u)) ELSE << >>

\* float(g) raises ValueError unless g is [sign] digits [. digits] or
\* [sign] . digits (the float literals the characters of the inputs can form)
float_raises_ValueError(g) ==
  LET u == IF g # << >> /\ Head(g) \in {"-", "+"} THEN Tail(g) ELSE g
      d == DigitsEnd(u, 1)
      f == IF d <= Len(u) /\ u[d] = "." THEN DigitsEnd(u, d + 1) ELSE d
  IN  ~ (f = Len(u) + 1 /\ (IntDigits(g) # << >> \/ FracDigits(g) # << >>))

RECURSIVE DropZeros(_)
DropZeros(ds) ==
  IF ds # << >> /\ Head(ds) = "0" THEN DropZeros(Tail(ds)) ELSE ds

\* a double holds no value of more than 309 decimal digits: float() of such
\* a numeral is inf
DBL_MAX_DIGITS == 309

\* float(g) is inf, so int() of it raises OverflowError
int_raises_OverflowError(g) == Len(DropZeros(IntDigits(g))) > DBL_MAX_DIGITS

RECURSIVE DigitsValue(_)
DigitsValue(ds) ==
  IF ds = << >> THEN 0
  ELSE 10 * DigitsValue(SubSeq(ds, 1, Len(ds) - 1)) + DigitVal(ds[Len(ds)])

\* ---- float(g): the double nearest to the numeral (line 70) ----
\* A double has a 53-bit significand, so every integer the model handles is
\* a double and float(g) lies between the numeral's integer part I and I + 1.
\* int() then yields I, unless float(g) is I + 1 itself: the numeral is at
\* most half a spacing of the doubles below I + 1 (ties go to the even
\* significand, which is I + 1).
DBL_MANT_DIG == 53

MaxOfTwo(a, b) == IF a >= b THEN a ELSE b

RECURSIVE Log2Floor(_)
Log2Floor(n) == IF n < 2 THEN 0 ELSE 1 + Log2Floor(n \div 2)

\* m such that half the spacing of the doubles just below the integer n >= 1
\* is 2^-m: the doubles of [2^k, 2^(k+1)) are 2^(k+1-53) apart
HalfSpacingExp(n) ==
  IF 2 ^ Log2Floor(n) = n THEN DBL_MANT_DIG + 1 - Log2Floor(n)
  ELSE DBL_MANT_DIG - Log2Floor(n)

\* the decimal digits of half of 0.d1...dn, which has n + 1 of them
Halve(ds) ==
  SubSeq([i \in 1..(Len(ds) + 1) |->
            ((IF i > 1 /\ ds[i - 1] % 2 = 1 THEN 10 ELSE 0)
               + (IF i <= Len(ds) THEN ds[i] ELSE 0)) \div 2],
         1, Len(ds) + 1)

\* the decimal digits of 2^-m after the point, m >= 1
RECURSIVE FracOfPow2(_)
\* (the set binds each power once it is computed)
FracOfPow2(m) ==
  IF m <= 1 THEN <<5>>
  ELSE CHOOSE hs \in {Halve(ps) : ps \in {FracOfPow2(m - 1)}} : TRUE

\* the decimal digits of 1 - 0.p1...pn, pn # 0
OneMinus(ps) ==
  [i \in 1..Len(ps) |-> IF i < Len(ps) THEN 9 - ps[i] ELSE 10 - ps[i]]

FracDigitAt(fs, i) == IF i <= Len(fs) THEN fs[i] ELSE 0

\* 0.f1...fn >= 0.t1...tk
FracGE(fs, ts) ==
  \A i \in 1..MaxOfTwo(Len(fs), Len(ts)) :
    FracDigitAt(fs, i) < FracDigitAt(ts, i)
      => \E j \in 1..(i - 1) : FracDigitAt(fs, j) > FracDigitAt(ts, j)

\* the number of 9s a fraction begins with
NinesPrefix(fs) ==
  IF \A i \in 1..Len(fs) : fs[i] = "9" THEN Len(fs)
  ELSE (CHOOSE i \in 1..Len(fs) : fs[i] # "9" /\ \A j \in 1..(i - 1) : fs[j] = "9") - 1

\* float() of the numeral with integer part whole and fraction digits fs is
\* the integer whole + 1: the fraction is at least 1 - 2^-m.  As 2^-m is at
\* most 10^-(m \div 4), only a fraction that begins with m \div 4 nines can be
float_rounds_up(whole, fs) ==
  /\ NinesPrefix(fs) >= HalfSpacingExp(whole + 1) \div 4
  /\ FracGE([i \in 1..Len(fs) |-> DigitVal(fs[i])],
            OneMinus(FracOfPow2(HalfSpacingExp(whole + 1))))

float_magnitude(whole, fs) ==
  IF float_rounds_up(whole, fs) THEN whole + 1 ELSE whole

\* int(float(g)), lines 70-72: int() drops the fraction of the double, toward
\* zero, so the sign applies to the magnitude
int_float_half_up(g) ==
  LET whole == DigitsValue(IntDigits(g))
      fs    == FracDigits(g)
      mag   == IF fs # << >> /\ DigitVal(fs[1]) >= 5 THEN whole + 1 ELSE whole
  IN  IF Head(g) = "-" THEN 0 - mag ELSE mag
int_float(g) ==
  IF Head(g) = "-"
    THEN 0 - float_magnitude(DigitsValue(IntDigits(g)), FracDigits(g))
    ELSE float_magnitude(DigitsValue(IntDigits(g)), FracDigits(g))

(***************************************************************************)
(* The body of the for loop of parse_commands_from_file (lines 62-77) as a *)
(* function of one raw line: what the loop does with it.                   *)
(***************************************************************************)
MoveInstr(x, y, z) == [type |-> "move", x |-> x, y |-> y, z |-> z, value |-> NO_TEXT]
CommandInstr(text) == [type |-> "command", x |-> 0, y |-> 0, z |-> 0, value |-> text]

Classified(kind, instr, text) == [kind |-> kind, instr |-> instr, text |-> text]

\* lines 68-75: the line matched the move pattern
classify_match(line_content, m) ==
  IF \E g \in {m.g1, m.g2, m.g3} : float_raises_ValueError(g)
    THEN Classified("warning", CommandInstr(NO_TEXT), line_content)
  ELSE IF \E g \in {m.g1, m.g2, m.g3} : int_raises_OverflowError(g)
    THEN Classified("overflow", CommandInstr(NO_TEXT), line_content)
  ELSE Classified("move",
                  MoveInstr(int_float(m.g1), int_float(m.g2), int_float(m.g3)),
                  line_content)

\* mutant: only blank lines are skipped, comment lines are not
classify_stripped_no_comment(line_content, m) ==
  IF line_content = << >>
    THEN Classified("skip", CommandInstr(NO_TEXT), line_content)
  ELSE IF m.matched
    THEN classify_match(line_content, m)
  ELSE Classified("command", CommandInstr(line_content), line_content)

\* lines 64-77, on the stripped line
classify_stripped(line_content, m) ==
  IF line_content = << >> \/ startswith(line_content, COMMENT_MARKER)
    THEN Classified("skip", CommandInstr(NO_TEXT), line_content)
  ELSE IF m.matched
    THEN classify_match(line_content, m)
  ELSE Classified("command", CommandInstr(line_content), line_content)

read_stripped(line_content) == classify_stripped(line_content, move_match(line_content))

\* lines 62-77
classify_line(raw) == read_stripped(strip(raw))

(***************************************************************************)
(* Inputs: the lines a command file is made of.  Each is a line as         *)
(* enumerate(f) yields it, with its newline.                               *)
(***************************************************************************)
L_blank == <<" "," ","\t","\n">>
L_comment == <<"#"," ","c","o","m","m","e","n","t"," ","x","\n">>
L_move0 == <<"#"," ","m","o","v","e",","," ","0",","," ","6","0",","," ","0","\n">>
L_movehigh == <<"#"," ","m","o","v","e",",","1",",","2","0","0",",","2","\n">>
L_bad == <<"#"," ","m","o","v","e",","," ","a","b","c",","," ","1",","," ","2","\n">>
L_say == <<" ","s","a","y"," ","\"","a","\\","b","\""," ","\n">>
L_dec == <<"#"," ","m","o","v","e",","," ","1","0",".","9",","," ","-","5",".","2",","," ","0","\n">>
L_tail == <<"#"," ","m","o","v","e",","," ","3",","," ","1","2","8",","," ","4"," ","x","\n">>
\* a move line whose first numeral is 1 followed by 309 zeros
L_huge ==
  <<"#"," ","m","o","v","e",","," ","1">> \o [i \in 1..DBL_MAX_DIGITS |-> "0"]
    \o <<","," ","0",","," ","0","\n">>

LinePool ==
  {L_blank, L_comment, L_move0, L_movehigh, L_bad, L_say, L_dec, L_tail, L_huge}

Files == UNION {[1..n -> LinePool] : n \in 0..MaxLines}

\* the values the setting CHAIN_COMMAND_BLOCK_AUTO is given
ChainAutoSettings == {<<"t","r","u","e">>, <<"T","R","U","E">>, <<"f","a","l","s","e">>}

(***************************************************************************)
(* State.                                                                  *)
(***************************************************************************)
VARIABLES
  file_status,                  \* what open(filepath) does: "ok", "not_found", "denied"
  lines,                        \* the lines of the file
  CHAIN_COMMAND_BLOCK_AUTO,     \* the setting of line 29
  pc,                           \* where the program is
  line_number,                  \* enumerate(f, 1): the number of the next line
  instructions,                 \* the list parse_commands_from_file builds and returns
  parse_result,                 \* "pending", "None" or "list": what the parser returned
  state_created,                \* lines 103-112 have run
  current_base_x, current_base_y, current_base_z,
  block_counter_overall,
  block_counter_current_stack,
  idx,                          \* position of the for loop of line 115
  inflight,                     \* the command send_minecraft_command is delivering, if any
  sent,                         \* the commands the injector has entered, in order
  stdout,                       \* what the program has printed
  outcome                       \* how the run ended, "" while it runs

vars == <<file_status, lines, CHAIN_COMMAND_BLOCK_AUTO, pc, line_number,
          instructions, parse_result, state_created, current_base_x,
          current_base_y, current_base_z, block_counter_overall,
          block_counter_current_stack, idx, inflight, sent, stdout, outcome>>

inputVars == <<file_status, lines, CHAIN_COMMAND_BLOCK_AUTO>>
parserVars == <<line_number, instructions, parse_result>>
placementVars == <<state_created, current_base_x, current_base_y, current_base_z,
                   block_counter_overall, block_counter_current_stack, idx>>

\* one print: which message, the number it shows (0 if none), the text it shows
Msg(m, n, t) == [msg |-> m, n |-> n, text |-> t]

Init ==
  /\ file_status \in {"ok", "not_found", "denied"}
  /\ lines \in (IF file_status = "ok" THEN Files ELSE {<< >>})
  /\ CHAIN_COMMAND_BLOCK_AUTO \in ChainAutoSettings
  /\ pc = "focus"
  /\ line_number = 0
  /\ instructions = << >>
  /\ parse_result = "pending"
  /\ state_created = FALSE
  /\ current_base_x = 0
  /\ current_base_y = 0
  /\ current_base_z = 0
  /\ block_counter_overall = 0
  /\ block_counter_current_stack = 0
  /\ idx = 0
  /\ inflight = << >>
  /\ sent = << >>
  /\ stdout = << >>
  /\ outcome = ""

(***************************************************************************)
(* Lines 87-92: the banner and focus_minecraft_window (lines 33-37).       *)
(***************************************************************************)
focus_minecraft_window ==
  /\ pc = "focus"
  /\ pc' = "open"
  /\ stdout' = stdout \o <<Msg("banner", 0, NO_TEXT), Msg("focus", 0, NO_TEXT),
                           Msg("command_file", 0, NO_TEXT)>>
  /\ UNCHANGED <<inputVars, parserVars, placementVars, inflight, sent, outcome>>

(***************************************************************************)
(* parse_commands_from_file (lines 57-83).                                 *)
(***************************************************************************)
\* lines 58-60: open() succeeds
open_file ==
  /\ pc = "open"
  /\ file_status = "ok"
  /\ pc' = "read"
  /\ line_number' = 1
  /\ instructions' = << >>
  /\ UNCHANGED <<inputVars, parse_result, placementVars, inflight, sent, stdout, outcome>>

\* lines 79-81: open() raises FileNotFoundError; the parser returns None
open_FileNotFoundError ==
  /\ pc = "open"
  /\ file_status = "not_found"
  /\ stdout' = Append(stdout, Msg("error_not_found", 0, NO_TEXT))
  /\ parse_result' = "None"
  /\ pc' = "check"
  /\ UNCHANGED <<inputVars, line_number, instructions, placementVars, inflight, sent, outcome>>

\* open() raises another OSError (PermissionError, IsADirectoryError): no except
\* clause of lines 79-81 catches it and the program ends with a traceback
open_OSError ==
  /\ pc = "open"
  /\ file_status = "denied"
  /\ pc' = "done"
  /\ outcome' = "uncaught_exception"
  /\ stdout' = Append(stdout, Msg("traceback", 0, NO_TEXT))
  /\ UNCHANGED <<inputVars, parserVars, placementVars, inflight, sent>>

\* what one turn of the loop over the lines does with a classified line
parse_effect(c) ==
  /\ instructions' =
       IF c.kind \in {"move", "command"} THEN Append(instructions, c.instr)
       ELSE instructions
  /\ stdout' =
       CASE c.kind = "warning" -> Append(stdout, Msg("warning", line_number, c.text))
         [] c.kind = "overflow" -> Append(stdout, Msg("traceback", 0, NO_TEXT))
         [] OTHER -> stdout
  \* int() raising OverflowError is caught by neither except clause
  /\ pc' = IF c.kind = "overflow" THEN "done" ELSE "read"
  /\ outcome' = IF c.kind = "overflow" THEN "uncaught_exception" ELSE outcome
  /\ line_number' = IF c.kind = "overflow" THEN line_number ELSE line_number + 1

\* lines 61-77: one turn of the loop over the lines
parse_line ==
  /\ pc = "read"
  /\ line_number <= Len(lines)
  /\ parse_effect(classify_line(lines[line_number]))
  /\ UNCHANGED <<inputVars, parse_result, placementVars, inflight, sent>>

\* line 83: the file is exhausted, the list is returned
parse_return ==
  /\ pc = "read"
  /\ line_number > Len(lines)
  /\ parse_result' = "list"
  /\ pc' = "check"
  /\ UNCHANGED <<inputVars, line_number, instructions, placementVars, inflight, sent,
                 stdout, outcome>>

(***************************************************************************)
(* __main__, lines 96-112.                                                 *)
(***************************************************************************)
\* mutant: the run goes on after the parser returned None
exit_on_None_falls_through ==
  /\ pc = "check"
  /\ parse_result = "None"
  /\ state_created' = TRUE
  /\ current_base_x' = INITIAL_BASE_X
  /\ current_base_y' = INITIAL_BASE_Y
  /\ current_base_z' = INITIAL_BASE_Z
  /\ idx' = 1
  /\ pc' = "loop"
  /\ UNCHANGED <<inputVars, parserVars, block_counter_overall,
                 block_counter_current_stack, inflight, sent, stdout, outcome>>

\* lines 96-97
exit_on_None ==
  /\ pc = "check"
  /\ parse_result = "None"
  /\ pc' = "done"
  /\ outcome' = "exit"
  /\ UNCHANGED <<inputVars, parserVars, placementVars, inflight, sent, stdout>>

\* lines 99-101
exit_on_empty ==
  /\ pc = "check"
  /\ parse_result = "list"
  /\ instructions = << >>
  /\ stdout' = Append(stdout, Msg("no_instructions", 0, NO_TEXT))
  /\ pc' = "done"
  /\ outcome' = "exit"
  /\ UNCHANGED <<inputVars, parserVars, placementVars, inflight, sent>>

\* lines 103-112
create_state ==
  /\ pc = "check"
  /\ parse_result = "list"
  /\ instructions # << >>
  /\ state_created' = TRUE
  /\ current_base_x' = INITIAL_BASE_X
  /\ current_base_y' = INITIAL_BASE_Y
  /\ current_base_z' = INITIAL_BASE_Z
  /\ stdout' = IF instructions[1].type # "move"
                 THEN stdout \o <<Msg("starting_with_initial_base", 0, NO_TEXT),
                                  Msg("coordinates_will_change", 0, NO_TEXT)>>
                 ELSE stdout
  /\ block_counter_overall' = 0
  /\ block_counter_current_stack' = 0
  /\ idx' = 1
  /\ pc' = "loop"
  /\ UNCHANGED <<inputVars, parserVars, inflight, sent, outcome>>

(***************************************************************************)
(* The strings the loop builds (lines 123, 155, 169, 171-174).             *)
(***************************************************************************)
SP == <<" ">>

\* line 123
fill_command(move_x, move_y, move_z) ==
  FILL_NAME \o IntStr(move_x) \o SP \o IntStr(move_y) \o SP \o IntStr(move_z)
    \o SP \o IntStr(move_x) \o SP \o IntStr(CLEAR_UPPER_Y) \o SP \o IntStr(move_z)
    \o FILL_TAIL

\* line 155
block_states_str ==
  FACING_EQ \o lower(COMMAND_BLOCK_FACING) \o COND_EQ
    \o lower(COMMAND_BLOCK_CONDITION) \o <<"]">>

\* line 169
nbt_data_str(escaped_cmd_for_nbt, auto_setting_str) ==
  NBT_OPEN \o escaped_cmd_for_nbt \o NBT_AUTO \o auto_setting_str \o <<"}">>

\* mutant: a space between the block states and the data
minecraft_setblock_cmd_spaced(target_x, target_y, target_z, block_id_str, nbt) ==
  SETBLOCK_NAME \o IntStr(target_x) \o SP \o IntStr(target_y) \o SP
    \o IntStr(target_z) \o SP \o block_id_str \o block_states_str \o SP \o nbt
    \o REPLACE_TAIL

\* lines 171-174
minecraft_setblock_cmd(target_x, target_y, target_z, block_id_str, nbt) ==
  SETBLOCK_NAME \o IntStr(target_x) \o SP \o IntStr(target_y) \o SP
    \o IntStr(target_z) \o SP \o block_id_str \o block_states_str \o nbt
    \o REPLACE_TAIL

\* mutant: the stack counter is compared before it is incremented
block_id_of_precount(stack_count) ==
  IF stack_count = 0 THEN REPEATING_ID ELSE CHAIN_ID

\* lines 159-165: the block and its auto setting, from the stack counter
block_id_of(stack_count) ==
  IF stack_count = 1 THEN REPEATING_ID ELSE CHAIN_ID

auto_setting_of(stack_count, chain_auto) ==
  IF stack_count = 1 THEN AUTO_0B
  ELSE IF lower(chain_auto) = TRUE_STR THEN AUTO_1B ELSE AUTO_0B

\* mutant: the fill is aimed at the column the program is leaving
FillCommand_old_column(move_x, move_y, move_z) ==
  [name |-> "fill", x |-> current_base_x, y |-> move_y, z |-> current_base_z,
   block_id_str |-> NO_TEXT, auto_setting_str |-> NO_TEXT,
   escaped_cmd_for_nbt |-> NO_TEXT,
   text |-> fill_command(current_base_x, move_y, current_base_z)]

\* a command handed to send_minecraft_command: its text, and the values the
\* text was built from
FillCommand(move_x, move_y, move_z) ==
  [name |-> "fill", x |-> move_x, y |-> move_y, z |-> move_z,
   block_id_str |-> NO_TEXT, auto_setting_str |-> NO_TEXT,
   escaped_cmd_for_nbt |-> NO_TEXT,
   text |-> fill_command(move_x, move_y, move_z)]

SetblockCommand(target_x, target_y, target_z, stack_count, chain_auto, cmd_to_set_in_block) ==
  LET escaped == escape_command_string(cmd_to_set_in_block)
      block == block_id_of(stack_count)
      auto == auto_setting_of(stack_count, chain_auto)
  IN  [name |-> "setblock", x |-> target_x, y |-> target_y, z |-> target_z,
       block_id_str |-> block, auto_setting_str |-> auto,
       escaped_cmd_for_nbt |-> escaped,
       text |-> minecraft_setblock_cmd(target_x, target_y, target_z, block,
                                       nbt_data_str(escaped, auto))]

(***************************************************************************)
(* The for loop of lines 115-178.  A call of send_minecraft_command        *)
(* (lines 39-51) takes the program from "loop" to "typing" (the text is    *)
(* being typed), then to "exec_wait" (Enter was pressed: the command is    *)
(* entered) and back.                                                      *)
(***************************************************************************)
InLoop == pc = "loop" /\ idx <= Len(instructions)

\* mutant: the bound is tested with < instead of <=
clears_strict(move_y) == move_y < CLEAR_UPPER_Y

\* the clearing fill may be sent for this y (line 122)
clears(move_y) == move_y <= CLEAR_UPPER_Y

\* mutant: a move within the bound relocates without clearing
move_send_fill_skipped ==
  /\ InLoop
  /\ instructions[idx].type = "move"
  /\ clears(instructions[idx].y)
  /\ current_base_x' = instructions[idx].x
  /\ current_base_y' = instructions[idx].y
  /\ current_base_z' = instructions[idx].z
  /\ block_counter_current_stack' = 0
  /\ idx' = idx + 1
  /\ stdout' = Append(stdout, Msg("moving", 0, NO_TEXT))
  /\ UNCHANGED <<inputVars, parserVars, state_created, block_counter_overall,
                 inflight, sent, pc, outcome>>

\* lines 116-125: a move whose y is within the bound: the fill is handed over
move_send_fill ==
  /\ InLoop
  /\ instructions[idx].type = "move"
  /\ clears(instructions[idx].y)
  /\ LET i == instructions[idx]
     IN  inflight' = <<FillCommand(i.x, i.y, i.z)>>
  /\ stdout' = Append(stdout, Msg("clearing_area", 0, NO_TEXT))
  /\ pc' = "typing"
  /\ UNCHANGED <<inputVars, parserVars, placementVars, sent, outcome>>

\* mutant: a move restarts the overall counter with the stack counter
relocate_resets_overall(i) ==
  /\ current_base_x' = i.x
  /\ current_base_y' = i.y
  /\ current_base_z' = i.z
  /\ block_counter_current_stack' = 0
  /\ block_counter_overall' = 0
  /\ idx' = idx + 1
  /\ UNCHANGED state_created

\* lines 130-136
relocate(i) ==
  /\ current_base_x' = i.x
  /\ current_base_y' = i.y
  /\ current_base_z' = i.z
  /\ block_counter_current_stack' = 0
  /\ idx' = idx + 1
  /\ UNCHANGED <<state_created, block_counter_overall>>

\* lines 116-122, 126-136: a move above the bound: no fill
move_no_fill ==
  /\ InLoop
  /\ instructions[idx].type = "move"
  /\ ~clears(instructions[idx].y)
  /\ relocate(instructions[idx])
  /\ stdout' = stdout \o <<Msg("skipping_area_clearing", 0, NO_TEXT),
                           Msg("moving", 0, NO_TEXT)>>
  /\ UNCHANGED <<inputVars, parserVars, inflight, sent, pc, outcome>>

\* lines 130-136, after the fill was delivered
move_after_fill ==
  /\ pc = "exec_wait"
  /\ instructions[idx].type = "move"
  /\ relocate(instructions[idx])
  /\ stdout' = Append(stdout, Msg("moving", 0, NO_TEXT))
  /\ inflight' = << >>
  /\ pc' = "loop"
  /\ UNCHANGED <<inputVars, parserVars, sent, outcome>>

\* lines 138-176: a command: the counters, the block, the setblock handed over
command_send_setblock ==
  /\ InLoop
  /\ instructions[idx].type = "command"
  /\ block_counter_overall' = block_counter_overall + 1
  /\ block_counter_current_stack' = block_counter_current_stack + 1
  /\ inflight' = <<SetblockCommand(current_base_x, current_base_y, current_base_z,
                                   block_counter_current_stack',
                                   CHAIN_COMMAND_BLOCK_AUTO,
                                   instructions[idx].value)>>
  /\ stdout' = stdout \o
       <<Msg("block", block_counter_overall', NO_TEXT),
         Msg(IF block_counter_current_stack' = 1 THEN "type_repeating" ELSE "type_chain",
             0, NO_TEXT)>>
  /\ pc' = "typing"
  /\ UNCHANGED <<inputVars, parserVars, state_created, current_base_x, current_base_y,
                 current_base_z, idx, sent, outcome>>

\* mutant: the origin is not advanced after a placement
command_after_setblock_no_advance ==
  /\ pc = "exec_wait"
  /\ instructions[idx].type = "command"
  /\ idx' = idx + 1
  /\ inflight' = << >>
  /\ pc' = "loop"
  /\ UNCHANGED <<inputVars, parserVars, state_created, current_base_x, current_base_y,
                 current_base_z, block_counter_overall, block_counter_current_stack,
                 sent, stdout, outcome>>

\* mutant: the stack stops growing at the top of the cleared region
command_after_setblock_capped ==
  /\ pc = "exec_wait"
  /\ instructions[idx].type = "command"
  /\ current_base_y' = IF current_base_y < CLEAR_UPPER_Y THEN current_base_y + 1
                        ELSE current_base_y
  /\ idx' = idx + 1
  /\ inflight' = << >>
  /\ pc' = "loop"
  /\ UNCHANGED <<inputVars, parserVars, state_created, current_base_x, current_base_z,
                 block_counter_overall, block_counter_current_stack, sent, stdout,
                 outcome>>

\* line 178, after the setblock was delivered
command_after_setblock ==
  /\ pc = "exec_wait"
  /\ instructions[idx].type = "command"
  /\ current_base_y' = current_base_y + 1
  /\ idx' = idx + 1
  /\ inflight' = << >>
  /\ pc' = "loop"
  /\ UNCHANGED <<inputVars, parserVars, state_created, current_base_x, current_base_z,
                 block_counter_overall, block_counter_current_stack, sent, stdout,
                 outcome>>

\* mutant: Enter is registered twice
send_press_enter_twice ==
  /\ pc = "typing"
  /\ sent' = sent \o <<inflight[1], inflight[1]>>
  /\ pc' = "exec_wait"
  /\ UNCHANGED <<inputVars, parserVars, placementVars, inflight, stdout, outcome>>

\* lines 40-50: the text is typed and Enter is pressed: the command is entered
send_press_enter ==
  /\ pc = "typing"
  /\ sent' = Append(sent, inflight[1])
  /\ pc' = "exec_wait"
  /\ UNCHANGED <<inputVars, parserVars, placementVars, inflight, stdout, outcome>>

\* lines 180, 188-189: the list is exhausted
\* mutant: the loop ends without reaching line 180
loop_exit_silent ==
  /\ pc = "loop"
  /\ idx > Len(instructions)
  /\ stdout' = Append(stdout, Msg("exiting", 0, NO_TEXT))
  /\ pc' = "done"
  /\ UNCHANGED <<inputVars, parserVars, placementVars, inflight, sent, outcome>>

loop_exit ==
  /\ pc = "loop"
  /\ idx > Len(instructions)
  /\ stdout' = stdout \o <<Msg("all_processed", 0, NO_TEXT), Msg("exiting", 0, NO_TEXT)>>
  /\ pc' = "done"
  /\ outcome' = "completed"
  /\ UNCHANGED <<inputVars, parserVars, placementVars, inflight, sent>>

\* mutant: the interrupt is caught inside the loop, which goes on with the
\* next instruction
KeyboardInterrupt_resumes ==
  /\ pc \in {"loop", "typing", "exec_wait"}
  /\ idx <= Len(instructions)
  /\ stdout' = Append(stdout, Msg("interrupted", 0, NO_TEXT))
  /\ pc' = "loop"
  /\ idx' = idx + 1
  /\ inflight' = << >>
  /\ outcome' = "interrupted"
  /\ UNCHANGED <<inputVars, parserVars, state_created, current_base_x, current_base_y,
                 current_base_z, block_counter_overall, block_counter_current_stack,
                 sent>>

\* lines 182-183, 188-189: Ctrl+C anywhere in the try block
KeyboardInterrupt ==
  /\ pc \in {"loop", "typing", "exec_wait"}
  /\ stdout' = stdout \o <<Msg("interrupted", 0, NO_TEXT), Msg("exiting", 0, NO_TEXT)>>
  /\ pc' = "done"
  /\ outcome' = "interrupted"
  /\ UNCHANGED <<inputVars, parserVars, placementVars, inflight, sent>>

\* mutant: the handler sends the command again
injector_Exception_retries ==
  /\ pc \in {"typing", "exec_wait"}
  /\ sent' = Append(sent, inflight[1])
  /\ stdout' = stdout \o <<Msg("error_occurred", 0, NO_TEXT), Msg("traceback", 0, NO_TEXT),
                           Msg("exiting", 0, NO_TEXT)>>
  /\ pc' = "done"
  /\ outcome' = "failed"
  /\ UNCHANGED <<inputVars, parserVars, placementVars, inflight>>

\* lines 184-189: a call of the mouse or keyboard controller (lines 40-50) raises
injector_Exception ==
  /\ pc \in {"typing", "exec_wait"}
  /\ stdout' = stdout \o <<Msg("error_occurred", 0, NO_TEXT), Msg("traceback", 0, NO_TEXT),
                           Msg("exiting", 0, NO_TEXT)>>
  /\ pc' = "done"
  /\ outcome' = "failed"
  /\ UNCHANGED <<inputVars, parserVars, placementVars, inflight, sent>>

(***************************************************************************)
(* The commands lines 103-178 hand to send_minecraft_command, in order,    *)
(* when every call returns: the loop as a function of the instruction list.*)
(***************************************************************************)
RECURSIVE run_from(_, _, _, _, _, _, _)
run_from(instrs, i, x, y, z, stack_count, chain_auto) ==
  IF i > Len(instrs) THEN << >>
  ELSE IF instrs[i].type = "move"
    THEN (IF clears(instrs[i].y)
            THEN <<FillCommand(instrs[i].x, instrs[i].y, instrs[i].z)>>
            ELSE << >>)
         \o run_from(instrs, i + 1, instrs[i].x, instrs[i].y, instrs[i].z, 0, chain_auto)
    ELSE <<SetblockCommand(x, y, z, stack_count + 1, chain_auto, instrs[i].value)>>
         \o run_from(instrs, i + 1, x, y + 1, z, stack_count + 1, chain_auto)

uninterrupted_run ==
  run_from(instructions, 1, INITIAL_BASE_X, INITIAL_BASE_Y, INITIAL_BASE_Z, 0,
           CHAIN_COMMAND_BLOCK_AUTO)

Next ==
  \/ focus_minecraft_window
  \/ open_file
  \/ open_FileNotFoundError
  \/ open_OSError
  \/ parse_line
  \/ parse_return
  \/ exit_on_None
  \/ exit_on_empty
  \/ create_state
  \/ move_send_fill
  \/ move_no_fill
  \/ move_after_fill
  \/ command_send_setblock
  \/ command_after_setblock
  \/ send_press_enter
  \/ loop_exit
  \/ KeyboardInterrupt
  \/ injector_Exception

(***************************************************************************)
(* The escaping of a payload: the program at the head of its loop, having  *)
(* read a file of one line whose text is any string of at most             *)
(* MaxPayloadLen characters over backslash, double quote and a letter.     *)
(***************************************************************************)
EscapeAlphabet == {"\\", "\"", "a"}

Payloads == UNION {[1..n -> EscapeAlphabet] : n \in 1..MaxPayloadLen}

InitEscape ==
  /\ file_status = "ok"
  /\ lines \in {<<t \o <<"\n">>>> : t \in Payloads}
  /\ CHAIN_COMMAND_BLOCK_AUTO \in ChainAutoSettings
  /\ pc = "loop"
  /\ line_number = 2
  /\ instructions = <<classify_line(lines[1]).instr>>
  /\ parse_result = "list"
  /\ state_created = TRUE
  /\ current_base_x = INITIAL_BASE_X
  /\ current_base_y = INITIAL_BASE_Y
  /\ current_base_z = INITIAL_BASE_Z
  /\ block_counter_overall = 0
  /\ block_counter_current_stack = 0
  /\ idx = 1
  /\ inflight = << >>
  /\ sent = << >>
  /\ stdout = <<Msg("banner", 0, NO_TEXT), Msg("focus", 0, NO_TEXT),
                Msg("command_file", 0, NO_TEXT),
                Msg("starting_with_initial_base", 0, NO_TEXT),
                Msg("coordinates_will_change", 0, NO_TEXT)>>
  /\ outcome = ""

NextEscape ==
  \/ command_send_setblock
  \/ send_press_enter
  \/ command_after_setblock
  \/ loop_exit

SpecEscape == InitEscape /\ [][NextEscape]_vars

(***************************************************************************)
(* The parser on one move line (lines 57-83), for the conversion of its    *)
(* numerals: the file holds one "# move, X, Y, Z" line in which one of the *)
(* three numerals ranges over signed decimals around the integers where    *)
(* float() changes its rounding.                                           *)
(***************************************************************************)
MaxNines == 17

Nines(n) == [i \in 1..n |-> "9"]

IntParts == {<<"0">>, <<"7">>, <<"1","0">>, <<"1","0","7","3","7","4","1","8","2","3">>}

FracParts ==
  {<< >>, <<".">>, <<".","2">>, <<".","5">>, <<".","9","9","9","9","9","9","9","5">>}
    \cup {<<".">> \o Nines(n) : n \in 1..MaxNines}

Numerals ==
  {sign \o whole \o frac : sign \in {<< >>, <<"-">>}, whole \in IntParts, frac \in FracParts}

NUM_X == <<"1","0",".","9">>
NUM_Y == <<"-","5",".","2">>
NUM_Z == <<"0">>

NumeralTriples ==
  {<<g, NUM_Y, NUM_Z>> : g \in Numerals}
    \cup {<<NUM_X, g, NUM_Z>> : g \in Numerals}
    \cup {<<NUM_X, NUM_Y, g>> : g \in Numerals}

MoveLine(t) ==
  MOVE_MARKER \o <<" ">> \o t[1] \o <<",", " ">> \o t[2] \o <<",", " ">> \o t[3] \o <<"\n">>

InitNumerals ==
  /\ file_status = "ok"
  /\ lines \in {<<MoveLine(t)>> : t \in NumeralTriples}
  /\ CHAIN_COMMAND_BLOCK_AUTO \in ChainAutoSettings
  /\ pc = "focus"
  /\ line_number = 0
  /\ instructions = << >>
  /\ parse_result = "pending"
  /\ state_created = FALSE
  /\ current_base_x = 0
  /\ current_base_y = 0
  /\ current_base_z = 0
  /\ block_counter_overall = 0
  /\ block_counter_current_stack = 0
  /\ idx = 0
  /\ inflight = << >>
  /\ sent = << >>
  /\ stdout = << >>
  /\ outcome = ""

NextNumerals ==
  \/ focus_minecraft_window
  \/ open_file
  \/ parse_line
  \/ parse_return

SpecNumerals == InitNumerals /\ [][NextNumerals]_vars

(***************************************************************************)
(* The placement part of the program (lines 99-189) left to run on a list  *)
(* of instructions: no Ctrl+C and no exception out of pyautogui.  The      *)
(* list is the one the parser returned for a file of lines that each give  *)
(* an instruction.  The code is sequential and every step of it returns    *)
(* (typewrite and press return, the sleeps of lines 44-50 are finite), so  *)
(* a step that can be taken is eventually taken.                           *)
(***************************************************************************)
RunPool == {L_move0, L_movehigh, L_say, L_dec, L_tail}

RunFiles == UNION {[1..n -> RunPool] : n \in 1..MaxLines}

RECURSIVE instructions_of(_)
instructions_of(ls) ==
  IF ls = << >> THEN << >>
  ELSE <<classify_line(Head(ls)).instr>> \o instructions_of(Tail(ls))

InitRun ==
  /\ file_status = "ok"
  /\ lines \in RunFiles
  /\ CHAIN_COMMAND_BLOCK_AUTO \in ChainAutoSettings
  /\ pc = "check"
  /\ line_number = Len(lines) + 1
  /\ instructions = instructions_of(lines)
  /\ parse_result = "list"
  /\ state_created = FALSE
  /\ current_base_x = 0
  /\ current_base_y = 0
  /\ current_base_z = 0
  /\ block_counter_overall = 0
  /\ block_counter_current_stack = 0
  /\ idx = 0
  /\ inflight = << >>
  /\ sent = << >>
  /\ stdout = <<Msg("banner", 0, NO_TEXT), Msg("focus", 0, NO_TEXT),
                Msg("command_file", 0, NO_TEXT)>>
  /\ outcome = ""

NextRun ==
  \/ create_state
  \/ move_send_fill
  \/ move_no_fill
  \/ move_after_fill
  \/ command_send_setblock
  \/ command_after_setblock
  \/ send_press_enter
  \/ loop_exit

SpecRun == InitRun /\ [][NextRun]_vars /\ WF_vars(NextRun)

Spec == Init /\ [][Next]_vars

(***************************************************************************)
(* Notions the claims are stated with.                                     *)
(***************************************************************************)
MaxOf(S) == CHOOSE m \in S : \A k \in S : k <= m

\* the position, among the first n instructions, of the last Move (0 if none)
LastMove(n) == MaxOf({0} \cup {j \in 1..n : instructions[j].type = "move"})

\* the origin in force after the first n instructions
OriginX(n) == IF LastMove(n) = 0 THEN 0 ELSE instructions[LastMove(n)].x
OriginY(n) == IF LastMove(n) = 0 THEN 60 ELSE instructions[LastMove(n)].y
OriginZ(n) == IF LastMove(n) = 0 THEN 0 ELSE instructions[LastMove(n)].z

\* the number of Commands among the first n instructions since the last Move
CommandsSince(n) == n - LastMove(n)

\* a command is being delivered, or was just delivered, for instruction idx
Delivering == pc \in {"typing", "exec_wait"}
PlacingCommand == Delivering /\ instructions[idx].type = "command"

\* the chain-auto flag is true
FlagIsTrue == CHAIN_COMMAND_BLOCK_AUTO \in {<<"t","r","u","e">>, <<"T","R","U","E">>}

EndsWith(s, suffix) ==
  Len(s) >= Len(suffix) /\ SubSeq(s, Len(s) - Len(suffix) + 1, Len(s)) = suffix

IsPrefix(p, s) == Len(p) <= Len(s) /\ SubSeq(s, 1, Len(p)) = p

\* what follows the n-th space of a text
RECURSIVE AfterSpaces(_, _)
AfterSpaces(t, n) ==
  IF n = 0 \/ t = << >> THEN t
  ELSE AfterSpaces(Tail(t), IF Head(t) = " " THEN n - 1 ELSE n)

\* the finally clause was reached: its message is the last thing printed
CleanupReached == stdout # << >> /\ stdout[Len(stdout)].msg = "exiting"

Printed(m) == \E k \in 1..Len(stdout) : stdout[k].msg = m

(***************************************************************************)
(* C1.  The first Command processed after a Move, or after the start of    *)
(* the run, is rendered as a repeating command block with auto:0b; every   *)
(* later Command before the next Move is rendered as a chain command block *)
(* whose auto is 1b when the chain-auto flag is true and 0b otherwise.     *)
(***************************************************************************)
C1_Expected(c, kind, auto) ==
  /\ c.name = "setblock"
  /\ c.block_id_str = kind
  /\ c.auto_setting_str = auto
  /\ startswith(AfterSpaces(c.text, 4), kind \o <<"[">>)
  /\ EndsWith(c.text, <<",","a","u","t","o",":">> \o auto
                        \o <<"}"," ","r","e","p","l","a","c","e">>)

\* C1: the first Command of a stack is repeating with auto:0b, the later ones
\* are chain with auto following the chain-auto flag
C1_FirstRepeatingRestChain ==
  PlacingCommand =>
    /\ IF idx = 1 \/ instructions[idx - 1].type = "move"
         THEN C1_Expected(inflight[1], REPEATING_ID, <<"0","b">>)
         ELSE C1_Expected(inflight[1], CHAIN_ID,
                          IF FlagIsTrue THEN <<"1","b">> ELSE <<"0","b">>)
    /\ pc = "exec_wait" => sent[Len(sent)] = inflight[1]

\* a repeating block, then a chain block with auto:1b, were entered after a Move
C1_Witness ==
  /\ pc = "exec_wait"
  /\ idx = 3
  /\ instructions[1].type = "move"
  /\ FlagIsTrue
  /\ Len(sent) >= 2
  /\ sent[Len(sent) - 1].block_id_str = REPEATING_ID
  /\ sent[Len(sent)].block_id_str = CHAIN_ID
  /\ sent[Len(sent)].auto_setting_str = <<"1","b">>

(***************************************************************************)
(* C2.  The k-th Command since the last Move(x,y,z) is placed at           *)
(* (x, y+k-1, z), with (0,60,0) for the origin when no Move was processed; *)
(* at every instruction boundary originY is the Y of the last Move (or 60) *)
(* plus stackIndex and originX, originZ are the last Move's (or 0, 0); and *)
(* [Move(0,60,0), Command, Command] places at (0,60,0) and (0,61,0).       *)
(***************************************************************************)
C2_Example ==
  /\ Len(instructions) = 3
  /\ instructions[1].type = "move"
  /\ instructions[1].x = 0 /\ instructions[1].y = 60 /\ instructions[1].z = 0
  /\ instructions[2].type = "command"
  /\ instructions[3].type = "command"

\* C2: the origin at each boundary, the target of each placement, the example
C2_PlacementCoordinates ==
  /\ pc = "loop" =>
       /\ current_base_x = OriginX(idx - 1)
       /\ current_base_y = OriginY(idx - 1) + block_counter_current_stack
       /\ current_base_z = OriginZ(idx - 1)
       /\ block_counter_current_stack = CommandsSince(idx - 1)
  /\ PlacingCommand =>
       /\ inflight[1].x = OriginX(idx)
       /\ inflight[1].y = OriginY(idx) + CommandsSince(idx) - 1
       /\ inflight[1].z = OriginZ(idx)
       /\ startswith(inflight[1].text,
                     <<"s","e","t","b","l","o","c","k"," ">> \o IntStr(inflight[1].x)
                       \o <<" ">> \o IntStr(inflight[1].y) \o <<" ">>
                       \o IntStr(inflight[1].z) \o <<" ">>)
  /\ (C2_Example /\ outcome = "completed") =>
       /\ Len(sent) = 3
       /\ <<sent[2].name, sent[2].x, sent[2].y, sent[2].z>> = <<"setblock", 0, 60, 0>>
       /\ <<sent[3].name, sent[3].x, sent[3].y, sent[3].z>> = <<"setblock", 0, 61, 0>>
       /\ startswith(sent[2].text, <<"s","e","t","b","l","o","c","k"," ","0"," ","6","0"," ","0"," ">>)
       /\ startswith(sent[3].text, <<"s","e","t","b","l","o","c","k"," ","0"," ","6","1"," ","0"," ">>)

\* the example run has completed
C2_Witness == C2_Example /\ outcome = "completed" /\ current_base_y = 62

(***************************************************************************)
(* C3.  Processing Move(x,y,z) emits exactly one clear directive, for the  *)
(* region (x,y,z)-(x,128,z) with material air and mode replace, when       *)
(* y <= 128 (y = 128 included), and none when y > 128; either way the      *)
(* origin becomes (x,y,z), stackIndex becomes 0 and the Move places        *)
(* nothing.                                                                *)
(***************************************************************************)
\* the number of commands the first n instructions emit if each Command emits
\* one placement and each Move one clear when its y is at most 128, else none
C3_Emitted(n) ==
  Cardinality({j \in 1..n : instructions[j].type = "command"
                            \/ instructions[j].y <= 128})

C3_ClearText(x, y, z) ==
  <<"f","i","l","l"," ">> \o IntStr(x) \o <<" ">> \o IntStr(y) \o <<" ">> \o IntStr(z)
    \o <<" ">> \o IntStr(x) \o <<" ","1","2","8"," ">> \o IntStr(z)
    \o <<" ","m","i","n","e","c","r","a","f","t",":","a","i","r"," ","r","e","p","l","a","c","e">>

\* the Move at position idx - 1 has just been processed
C3_AfterMove == pc = "loop" /\ idx > 1 /\ instructions[idx - 1].type = "move"

\* C3: one clear up to Y 128 per Move with y <= 128, none above; the origin is
\* moved and the stack counter reset either way
C3_MoveClearsUpTo128 ==
  /\ pc = "loop" => Len(sent) = C3_Emitted(idx - 1)
  /\ C3_AfterMove =>
       /\ current_base_x = instructions[idx - 1].x
       /\ current_base_y = instructions[idx - 1].y
       /\ current_base_z = instructions[idx - 1].z
       /\ block_counter_current_stack = 0
       /\ instructions[idx - 1].y <= 128 =>
            /\ sent[Len(sent)].name = "fill"
            /\ sent[Len(sent)].text =
                 C3_ClearText(instructions[idx - 1].x, instructions[idx - 1].y,
                              instructions[idx - 1].z)

\* a Move with y = 200 and then a Move with y = 128 were processed: one clear
C3_Witness ==
  /\ C3_AfterMove
  /\ idx = 3
  /\ instructions[1].type = "move" /\ instructions[1].y = 200
  /\ instructions[2].y = 128
  /\ Len(sent) = 1
  /\ sent[1].text = <<"f","i","l","l"," ","3"," ","1","2","8"," ","4"," ","3"," ","1","2","8"," ","4"," ","m","i","n","e","c","r","a","f","t",":","a","i","r"," ","r","e","p","l","a","c","e">>

(***************************************************************************)
(* Notions of the parser claims.                                           *)
(***************************************************************************)
\* the line is blank, or a "# comment" line, after trimming
SkippableLine(raw) ==
  strip(raw) = << >>
    \/ startswith(strip(raw), <<"#"," ","c","o","m","m","e","n","t">>)

\* the line looks like a move but does not give three numerals that parse
MalformedMoveLine(raw) ==
  /\ ~SkippableLine(raw)
  /\ startswith(strip(raw), <<"#"," ","m","o","v","e",",">>)
  /\ classify_line(raw).kind # "move"

\* the parser is through with line n
LineProcessed(n) ==
  /\ file_status = "ok"
  /\ n <= Len(lines)
  /\ \/ line_number > n
     \/ line_number = n /\ pc = "done"

\* the call of the parser is over
ParserOver == file_status = "ok" /\ pc \notin {"focus", "open", "read"}

WarningsFor(n) ==
  Cardinality({k \in 1..Len(stdout) : stdout[k].msg = "warning" /\ stdout[k].n = n})

(***************************************************************************)
(* C4.  A line that looks like a move but has a malformed numeral          *)
(* produces exactly one warning that names its 1-based line number, adds   *)
(* no instruction, and does not stop the parsing: the well-formed lines    *)
(* after it are parsed into instructions in order.                         *)
(***************************************************************************)
\* the instructions of the lines, the malformed move lines adding none
RECURSIVE C4_Expected(_)
C4_Expected(ls) ==
  IF ls = << >> THEN << >>
  ELSE (IF SkippableLine(Head(ls)) \/ MalformedMoveLine(Head(ls))
          THEN << >>
          ELSE <<classify_line(Head(ls)).instr>>)
       \o C4_Expected(Tail(ls))

\* C4: a malformed move line gives one warning with its line number and no
\* instruction, and the parsing goes on
C4_MalformedMoveWarnedAndSkipped ==
  /\ \A n \in 1..Len(lines) :
       (LineProcessed(n) /\ MalformedMoveLine(lines[n])) =>
         /\ WarningsFor(n) = 1
         /\ outcome # "uncaught_exception"
  /\ ParserOver =>
       /\ parse_result = "list"
       /\ instructions = C4_Expected(lines)

(***************************************************************************)
(* C5.  Escaping doubles every backslash and then puts one backslash       *)
(* before every double quote: in the rendered Command field every          *)
(* backslash of the payload appears as two backslashes and every double    *)
(* quote as backslash-quote, and reading the rendered field back, undoing  *)
(* the escapes, gives the payload again.                                   *)
(***************************************************************************)
\* each character of the payload by itself: a backslash as two, a quote as
\* backslash-quote, any other character as it is
RECURSIVE C5_CharByChar(_)
C5_CharByChar(t) ==
  IF t = << >> THEN << >>
  ELSE (CASE Head(t) = "\\" -> <<"\\","\\">>
          [] Head(t) = "\"" -> <<"\\","\"">>
          [] OTHER -> <<Head(t)>>)
       \o C5_CharByChar(Tail(t))

\* reading a quoted string from position i of u, just after its opening quote:
\* a backslash makes the next character literal, a bare quote ends the string
RECURSIVE C5_ReadQuoted(_, _, _)
C5_ReadQuoted(u, i, acc) ==
  IF i > Len(u) THEN [ok |-> FALSE, value |-> acc, rest |-> << >>]
  ELSE IF u[i] = "\"" THEN [ok |-> TRUE, value |-> acc, rest |-> SubSeq(u, i + 1, Len(u))]
  ELSE IF u[i] = "\\"
    THEN IF i + 1 > Len(u) THEN [ok |-> FALSE, value |-> acc, rest |-> << >>]
         ELSE C5_ReadQuoted(u, i + 2, Append(acc, u[i + 1]))
  ELSE C5_ReadQuoted(u, i + 1, Append(acc, u[i]))

\* where the data block of a rendered setblock begins: its first "{"
C5_DataStart(text) ==
  CHOOSE p \in 1..Len(text) : text[p] = "{" /\ \A q \in 1..(p - 1) : text[q] # "{"

\* the Command field of a rendered setblock, read back
C5_CommandField(text) ==
  C5_ReadQuoted(text, C5_DataStart(text) + Len(<<"{","C","o","m","m","a","n","d",":","\"">>),
                << >>)

\* C5: the escaping is the character-by-character one, and the rendered
\* Command field reads back as the payload
C5_EscapeRoundTrip ==
  PlacingCommand =>
    /\ inflight[1].escaped_cmd_for_nbt = C5_CharByChar(instructions[idx].value)
    /\ SubSeq(inflight[1].text, C5_DataStart(inflight[1].text),
              C5_DataStart(inflight[1].text) + 9)
         = <<"{","C","o","m","m","a","n","d",":","\"">>
    /\ C5_CommandField(inflight[1].text).ok
    /\ C5_CommandField(inflight[1].text).value = instructions[idx].value
    /\ C5_CommandField(inflight[1].text).rest =
         <<",","a","u","t","o",":">> \o inflight[1].auto_setting_str
           \o <<"}"," ","r","e","p","l","a","c","e">>

\* a payload of a backslash and a quote was rendered and entered
C5_Witness ==
  /\ pc = "exec_wait"
  /\ instructions[1].value = <<"\\","\"">>
  /\ sent[1].escaped_cmd_for_nbt = <<"\\","\\","\\","\"">>

(***************************************************************************)
(* C6.  If an interrupt arrives during dispatch, between commands or       *)
(* while one is being delivered, no command is emitted after it, the       *)
(* commands delivered before it are a prefix of what the uninterrupted     *)
(* run emits and stay, the run ends on the normal path with no error       *)
(* report, and the cleanup step is reached.                                *)
(***************************************************************************)
C6_InterruptStopsCleanly ==
  /\ [](outcome = "interrupted" =>
          /\ pc = "done"
          /\ CleanupReached
          /\ Printed("interrupted")
          /\ ~Printed("error_occurred")
          /\ ~Printed("traceback")
          /\ IsPrefix(sent, uninterrupted_run))
  /\ [][outcome' = "interrupted" => sent' = sent]_vars

\* the interrupt arrived while the second command was being typed
C6_Witness ==
  /\ outcome = "interrupted"
  /\ Len(sent) = 1
  /\ inflight # << >>
  /\ inflight[1] # sent[1]

(***************************************************************************)
(* C7.  If the injector fails while delivering a command, the failure is   *)
(* caught at the top level and reported, no later command is emitted, no   *)
(* directive (the failed one included) is sent a second time, and the      *)
(* cleanup step is reached.                                                *)
(***************************************************************************)
C7_InjectorFailureCaught ==
  /\ [](outcome = "failed" =>
          /\ pc = "done"
          /\ CleanupReached
          /\ Printed("error_occurred")
          /\ Printed("traceback")
          /\ IsPrefix(sent, uninterrupted_run))
  /\ [][outcome' = "failed" => sent' = sent]_vars

\* the injector failed after one command was entered and Enter was pressed for
\* the second
C7_Witness ==
  /\ outcome = "failed"
  /\ Len(sent) = 2
  /\ inflight # << >>
  /\ inflight[1] = sent[2]

(***************************************************************************)
(* C8.  If the source cannot be opened, the parser returns no              *)
(* instructions, the run ends early, the placement state is never created  *)
(* or changed, and no command, clear or placement, is sent.                *)
(***************************************************************************)
C8_UnopenableSourceSendsNothing ==
  file_status # "ok" =>
    /\ instructions = << >>
    /\ parse_result # "list"
    /\ pc \in {"focus", "open", "check", "done"}
    /\ pc = "check" => parse_result = "None"
    /\ pc = "done" => outcome \in {"exit", "uncaught_exception"}
    /\ ~state_created
    /\ <<current_base_x, current_base_y, current_base_z>> = <<0, 0, 0>>
    /\ <<block_counter_overall, block_counter_current_stack, idx>> = <<0, 0, 0>>
    /\ inflight = << >>
    /\ sent = << >>

\* the file was not found and the run is over
C8_Witness ==
  /\ file_status = "not_found"
  /\ pc = "done"
  /\ parse_result = "None"
  /\ Printed("error_not_found")

(***************************************************************************)
(* C9.  A readable source whose lines are all blank or "# comment" lines   *)
(* gives an empty instruction sequence, not an error; the run reports      *)
(* that there are no instructions, ends early without error and sends no   *)
(* command.                                                                *)
(***************************************************************************)
C9_OnlySkippable ==
  file_status = "ok" /\ \A n \in 1..Len(lines) : SkippableLine(lines[n])

\* C9: only blank and comment lines: an empty list, the no-instructions
\* message, an exit without error, nothing sent
C9_NoInstructionsReported ==
  C9_OnlySkippable =>
    /\ instructions = << >>
    /\ ParserOver => parse_result = "list"
    /\ pc \in {"focus", "open", "read", "check", "done"}
    /\ pc = "done" =>
         /\ outcome = "exit"
         /\ stdout[Len(stdout)].msg = "no_instructions"
    /\ ~Printed("warning") /\ ~Printed("traceback") /\ ~Printed("error_not_found")
    /\ ~state_created
    /\ inflight = << >>
    /\ sent = << >>

\* a file of a blank line, a comment line and a blank line was run to its end
C9_Witness ==
  /\ C9_OnlySkippable
  /\ Len(lines) = 3
  /\ lines[1] = L_blank
  /\ lines[2] = L_comment
  /\ pc = "done"
  /\ Printed("no_instructions")

(***************************************************************************)
(* C10.  For every sequence of lines the parser returns one instruction    *)
(* per line that is neither blank nor a "# comment" line, in source        *)
(* order: a Move for a line that matches the move pattern, otherwise a     *)
(* Command whose text is the trimmed line, "#" lines that do not match the *)
(* move pattern included.                                                  *)
(***************************************************************************)
C10_InstructionOf(raw) ==
  IF move_match(strip(raw)).matched
    THEN MoveInstr(int_float(move_match(strip(raw)).g1),
                   int_float(move_match(strip(raw)).g2),
                   int_float(move_match(strip(raw)).g3))
    ELSE CommandInstr(strip(raw))

RECURSIVE C10_Expected(_)
C10_Expected(ls) ==
  IF ls = << >> THEN << >>
  ELSE (IF SkippableLine(Head(ls)) THEN << >> ELSE <<C10_InstructionOf(Head(ls))>>)
       \o C10_Expected(Tail(ls))

\* C10: the parser returns one instruction per line that is not skipped, in
\* order, a Move or a Command
C10_OneInstructionPerLine ==
  ParserOver =>
    /\ parse_result = "list"
    /\ instructions = C10_Expected(lines)


(***************************************************************************)
(* C11.  The fields of a parsed Move against the numerals of its line.     *)
(* The numerals are read off the line by cutting it at its commas; the     *)
(* truncation of a numeral is the value of its digits before the point,    *)
(* with its sign.                                                          *)
(***************************************************************************)
CommaPositions(s) == {i \in 1..Len(s) : s[i] = ","}

NthComma(s, k) ==
  CHOOSE i \in CommaPositions(s) : Cardinality({j \in CommaPositions(s) : j <= i}) = k

NotBlank(c) == c \notin {" ", "\t", "\n"}

\* the k-th numeral of a "# move, X, Y, Z" line
FieldNumeral(s, k) ==
  SelectSeq(SubSeq(s, NthComma(s, k) + 1,
                   IF k < 3 THEN NthComma(s, k + 1) - 1 ELSE Len(s)),
            NotBlank)

Unsigned(g) == IF g[1] = "-" THEN Tail(g) ELSE g

PointAt(u) == IF "." \in {u[i] : i \in 1..Len(u)}
              THEN CHOOSE i \in 1..Len(u) : u[i] = "." /\ \A j \in 1..(i - 1) : u[j] # "."
              ELSE Len(u) + 1

RECURSIVE WholeValue(_, _)
WholeValue(u, n) ==
  IF n = 0 THEN 0 ELSE 10 * WholeValue(u, n - 1) + DigitVal(u[n])

Truncation(g) ==
  IF g[1] = "-" THEN 0 - WholeValue(Unsigned(g), PointAt(Unsigned(g)) - 1)
  ELSE WholeValue(g, PointAt(g) - 1)

\* one step further from zero than the truncation
TruncationAway(g) == IF g[1] = "-" THEN Truncation(g) - 1 ELSE Truncation(g) + 1

RECURSIVE LeadingZeros(_)
LeadingZeros(ds) ==
  IF ds # << >> /\ Head(ds) = "0" THEN 1 + LeadingZeros(Tail(ds)) ELSE 0

IsDigit(c) == c \in Digits

\* the digits of a numeral from its first non-zero one
SignificantDigits(g) ==
  Len(SelectSeq(g, IsDigit)) - LeadingZeros(SelectSeq(g, IsDigit))

ParsedMove == parse_result = "list" /\ Len(instructions) = 1

MoveField(k) ==
  CASE k = 1 -> instructions[1].x [] k = 2 -> instructions[1].y [] k = 3 -> instructions[1].z

\* C11 as stated: every field of the parsed Move is the truncation of its
\* numeral, whatever the numeral's length
C11_FieldsAreTruncations ==
  ParsedMove =>
    /\ instructions[1].type = "move"
    /\ \A k \in 1..3 : MoveField(k) = Truncation(FieldNumeral(lines[1], k))

\* C11: every field of the parsed Move is the truncation toward zero of its
\* numeral (fraction dropped, never rounded to nearest, negative numerals
\* toward zero) when the numeral has at most 15 significant digits; a longer
\* numeral gives the truncation or the integer one step further from zero,
\* as float() rounds it before int() truncates
C11_FieldsAreFloatTruncations ==
  ParsedMove =>
    /\ instructions[1].type = "move"
    /\ \A k \in 1..3 :
         /\ MoveField(k) \in {Truncation(FieldNumeral(lines[1], k)),
                              TruncationAway(FieldNumeral(lines[1], k))}
         /\ SignificantDigits(FieldNumeral(lines[1], k)) <= 15
              => MoveField(k) = Truncation(FieldNumeral(lines[1], k))

\* the example line "# move, 10.9, -5.2, 0" was parsed into Move{10, -5, 0}
C11_Witness ==
  /\ ParsedMove
  /\ lines[1] = MoveLine(<<NUM_X, NUM_Y, NUM_Z>>)
  /\ instructions = <<MoveInstr(10, 0 - 5, 0)>>


(***************************************************************************)
(* C12.  The rendered placement is exactly                                 *)
(*   setblock <x> <y> <z> <block-id>[facing=<facing>,conditional=<cond>]   *)
(*   {Command:"<escaped text>",auto:<0b|1b>} replace                       *)
(* on one line, the block-id being minecraft:repeating_command_block or    *)
(* minecraft:chain_command_block, facing and conditional in lower case,    *)
(* one space between the top-level tokens and no whitespace inside the     *)
(* state and data blocks other than that of the escaped text.              *)
(***************************************************************************)
C12_BlockIds == {<<"m","i","n","e","c","r","a","f","t",":","r","e","p","e","a","t","i","n","g","_","c","o","m","m","a","n","d","_","b","l","o","c","k">>,
                 <<"m","i","n","e","c","r","a","f","t",":","c","h","a","i","n","_","c","o","m","m","a","n","d","_","b","l","o","c","k">>}

C12_Layout(x, y, z, id, escaped, auto) ==
  <<"s","e","t","b","l","o","c","k">> \o <<" ">> \o IntStr(x) \o <<" ">> \o IntStr(y) \o <<" ">> \o IntStr(z)
    \o <<" ">> \o id
    \o <<"[","f","a","c","i","n","g","=","u","p",",","c","o","n","d","i","t","i","o","n","a","l","=","f","a","l","s","e","]">>
    \o <<"{","C","o","m","m","a","n","d",":","\"">> \o escaped \o <<"\"",",","a","u","t","o",":">> \o auto \o <<"}">>
    \o <<" ">> \o <<"r","e","p","l","a","c","e">>

\* the text before the data block: the five tokens up to the block states
C12_Head(text) == SubSeq(text, 1, C5_DataStart(text) - 1)

C12_Spaces(t) == {i \in 1..Len(t) : t[i] \in {" ", "\t", "\n"}}

\* C12: the text of every placement has the stated layout and spacing
C12_PlacementLayout ==
  PlacingCommand =>
    /\ inflight[1].block_id_str \in C12_BlockIds
    /\ inflight[1].auto_setting_str \in {<<"0","b">>, <<"1","b">>}
    /\ inflight[1].text =
         C12_Layout(inflight[1].x, inflight[1].y, inflight[1].z,
                    inflight[1].block_id_str,
                    C5_CharByChar(instructions[idx].value),
                    inflight[1].auto_setting_str)
    \* four single spaces before the data block, none inside the block states
    /\ Cardinality(C12_Spaces(C12_Head(inflight[1].text))) = 4
    /\ \A i \in C12_Spaces(C12_Head(inflight[1].text)) :
         /\ i + 1 \notin C12_Spaces(C12_Head(inflight[1].text))
         /\ \A j \in 1..i : inflight[1].text[j] # "["
    /\ \A i \in 1..Len(C12_Head(inflight[1].text)) :
         inflight[1].text[i] \notin {UPPER_CASE[k] : k \in 1..Len(UPPER_CASE)}
    \* after the data block: one space and the mode
    /\ EndsWith(inflight[1].text, <<"b","}"," ","r","e","p","l","a","c","e">>)

\* a chain block with auto:1b holding a command with a space, a quote and a
\* backslash was entered
C12_Witness ==
  /\ pc = "exec_wait"
  /\ PlacingCommand
  /\ instructions[idx].value = strip(L_say)
  /\ inflight[1].block_id_str = CHAIN_ID
  /\ inflight[1].auto_setting_str = <<"1","b">>
  /\ sent[Len(sent)].text = inflight[1].text


(***************************************************************************)
(* C13.  With no interrupt and no failure of the injector, the commands    *)
(* entered are the outputs of the instructions, concatenated in source     *)
(* order: at most one clear and no placement for a Move, exactly one       *)
(* placement for a Command, so that their number is the number of Commands *)
(* plus the number of Moves with y <= 128; nothing is entered twice,       *)
(* dropped or reordered.                                                   *)
(***************************************************************************)
\* what instruction i emits, from the instructions before it
C13_OutputOf(i) ==
  IF instructions[i].type = "move"
    THEN IF instructions[i].y <= 128
           THEN <<C3_ClearText(instructions[i].x, instructions[i].y, instructions[i].z)>>
           ELSE << >>
    ELSE <<C12_Layout(OriginX(i), OriginY(i) + CommandsSince(i) - 1, OriginZ(i),
                      IF CommandsSince(i) = 1
                        THEN <<"m","i","n","e","c","r","a","f","t",":","r","e","p","e","a","t","i","n","g","_","c","o","m","m","a","n","d","_","b","l","o","c","k">>
                        ELSE <<"m","i","n","e","c","r","a","f","t",":","c","h","a","i","n","_","c","o","m","m","a","n","d","_","b","l","o","c","k">>,
                      C5_CharByChar(instructions[i].value),
                      IF CommandsSince(i) > 1 /\ FlagIsTrue THEN <<"1","b">> ELSE <<"0","b">>)>>

RECURSIVE C13_Expected(_)
C13_Expected(n) == IF n = 0 THEN << >> ELSE C13_Expected(n - 1) \o C13_OutputOf(n)

C13_Entered == [k \in 1..Len(sent) |-> sent[k].text]

C13_Commands == {j \in 1..Len(instructions) : instructions[j].type = "command"}
C13_ClearingMoves ==
  {j \in 1..Len(instructions) : instructions[j].type = "move" /\ instructions[j].y <= 128}

\* C13: what was entered is the concatenation of the outputs of the
\* instructions processed so far, and of all of them at the end of the run
C13_InOrderOutputs ==
  /\ pc = "loop" => C13_Entered = C13_Expected(idx - 1)
  /\ pc = "typing" => C13_Entered = C13_Expected(idx - 1)
  /\ pc = "exec_wait" => C13_Entered = C13_Expected(idx)
  /\ outcome = "completed" =>
       /\ C13_Entered = C13_Expected(Len(instructions))
       /\ Len(sent) = Cardinality(C13_Commands) + Cardinality(C13_ClearingMoves)

\* a run over a Move that clears, a Command and a Move above 128 completed
C13_Witness ==
  /\ outcome = "completed"
  /\ Len(instructions) = 3
  /\ 1 \in C13_ClearingMoves
  /\ 2 \in C13_Commands
  /\ instructions[3].type = "move" /\ instructions[3].y > 128
  /\ Len(sent) = 2


(***************************************************************************)
(* C14.  totalPlaced starts at 0, grows by exactly 1 for each Command, is  *)
(* left alone by a Move and never decreases or restarts: at every          *)
(* instruction boundary it is the number of Commands processed so far.     *)
(* stackIndex starts at 0, is reset to 0 by every Move, and                *)
(* 0 <= stackIndex <= totalPlaced at every boundary.                       *)
(***************************************************************************)
C14_CommandsProcessed ==
  Cardinality({j \in 1..(idx - 1) : instructions[j].type = "command"})

C14_AtBoundary ==
  pc = "loop" =>
    /\ block_counter_overall = C14_CommandsProcessed
    /\ 0 <= block_counter_current_stack
    /\ block_counter_current_stack <= block_counter_overall
    /\ idx = 1 => block_counter_overall = 0 /\ block_counter_current_stack = 0
    /\ (idx > 1 /\ instructions[idx - 1].type = "move") => block_counter_current_stack = 0

\* a step that takes up a Command, and a step that ends the handling of a Move
C14_TakesCommand == pc = "loop" /\ pc' = "typing" /\ instructions[idx].type = "command"
C14_EndsMove == pc' = "loop" /\ idx' = idx + 1 /\ instructions[idx].type = "move"

C14_Step ==
  state_created =>
    /\ block_counter_overall' =
         IF C14_TakesCommand THEN block_counter_overall + 1 ELSE block_counter_overall
    /\ block_counter_current_stack' =
         IF C14_TakesCommand THEN block_counter_current_stack + 1
         ELSE IF C14_EndsMove THEN 0
         ELSE block_counter_current_stack

\* C14: the overall counter counts the Commands processed and never goes
\* down; the stack counter is reset by a Move and stays within 0..overall
C14_CountersCountCommands == [](C14_AtBoundary) /\ [][C14_Step]_vars

\* a Command, a Move, then one more Command were processed
C14_Witness ==
  /\ pc = "loop"
  /\ idx = 4
  /\ instructions[2].type = "move"
  /\ block_counter_overall = 2
  /\ block_counter_current_stack = 1


(***************************************************************************)
(* C15.  For every finite non-empty list of instructions, if the injector  *)
(* never fails and the run is not interrupted, the loop eventually ends in *)
(* "All instructions have been processed." after taking every instruction  *)
(* exactly once, and handling an instruction never puts the program in an  *)
(* error state.                                                            *)
(***************************************************************************)
C15_AllProcessed ==
  /\ outcome = "completed"
  /\ pc = "done"
  /\ idx = Len(instructions) + 1
  /\ Printed("all_processed")

\* the loop moves on by one instruction at a time, at the end of its handling
C15_OneAtATime ==
  state_created =>
    /\ idx' \in {idx, idx + 1}
    /\ idx' = idx + 1 => (pc' = "loop" /\ idx <= Len(instructions))

\* C15: a run over a non-empty list of instructions reaches "all processed",
\* one instruction at a time, without error
C15_RunCompletes ==
  /\ state_created ~> C15_AllProcessed
  /\ [](state_created => (outcome \in {"", "completed"} /\ ~Printed("traceback")))
  /\ [][C15_OneAtATime]_vars

\* a run over three instructions has ended with all of them processed
C15_Witness == C15_AllProcessed /\ Len(instructions) = 3 /\ Len(sent) = 3


(***************************************************************************)
(* C16.  For every Move with y <= 128 the clear is entered before any      *)
(* placement of the stack the Move starts; no clear is entered between two *)
(* placements of one stack; and no clear precedes the placements of the    *)
(* stack at the default origin, before any Move.                           *)
(***************************************************************************)
\* the Move that started the stack of the Command being placed (0: none)
C16_StackMove == LastMove(idx)

\* the place in what was entered of the output of that Move
C16_ClearIndex == C3_Emitted(C16_StackMove)

\* what was entered before the placement that is being delivered
C16_EnteredBefore == IF pc = "exec_wait" THEN Len(sent) - 1 ELSE Len(sent)

\* C16: when a placement is handed to the injector, the clear of its stack's
\* Move has been entered and only placements of the stack since
C16_ClearPrecedesStack ==
  PlacingCommand =>
    /\ C16_StackMove = 0 => \A k \in 1..Len(sent) : sent[k].name = "setblock"
    /\ C16_StackMove > 0 =>
         /\ \A k \in (C16_ClearIndex + 1)..Len(sent) : sent[k].name = "setblock"
         /\ C16_EnteredBefore - C16_ClearIndex = CommandsSince(idx) - 1
         /\ instructions[C16_StackMove].y <= 128 =>
              /\ 1 <= C16_ClearIndex
              /\ C16_ClearIndex <= C16_EnteredBefore
              /\ sent[C16_ClearIndex].name = "fill"
              /\ sent[C16_ClearIndex].x = instructions[C16_StackMove].x
              /\ sent[C16_ClearIndex].y = instructions[C16_StackMove].y
              /\ sent[C16_ClearIndex].z = instructions[C16_StackMove].z

\* the second placement of the stack of a clearing Move is being typed: the
\* clear and the first placement were entered, in that order
C16_Witness ==
  /\ pc = "typing"
  /\ PlacingCommand
  /\ idx = 3
  /\ instructions[1].type = "move"
  /\ Len(sent) = 2
  /\ sent[1].name = "fill"
  /\ sent[2].name = "setblock"


(***************************************************************************)
(* C17.  The world is a map from cells to contents: a clear sets every     *)
(* cell of its region to air, a placement overwrites its target cell.  If  *)
(* the stacks (the one at the default origin and the one of each Move) lie *)
(* in pairwise distinct (x, z) columns, then at the end of an              *)
(* uninterrupted run every block placed is still present, with its own     *)
(* kind and command.                                                       *)
(***************************************************************************)
C17_Moves == {j \in 1..Len(instructions) : instructions[j].type = "move"}

\* the columns of the stacks: index 0 stands for the stack at the default
\* origin, which exists when the run begins with a Command
C17_Stacks ==
  C17_Moves \cup (IF instructions # << >> /\ instructions[1].type = "command"
                  THEN {0} ELSE {})

C17_Column(j) == IF j = 0 THEN <<0, 0>> ELSE <<instructions[j].x, instructions[j].z>>

C17_ColumnsDistinct ==
  \A i, j \in C17_Stacks : i # j => C17_Column(i) # C17_Column(j)

\* the k-th command entered writes the cell
C17_Writes(k, cell) ==
  IF sent[k].name = "fill"
    THEN /\ sent[k].x = cell[1] /\ sent[k].z = cell[3]
         /\ sent[k].y <= cell[2] /\ cell[2] <= 128
    ELSE <<sent[k].x, sent[k].y, sent[k].z>> = cell

C17_Air == <<"air">>

\* the content of a cell after all the commands entered: that of its last writer
C17_ContentAt(cell) ==
  IF \A k \in 1..Len(sent) : ~C17_Writes(k, cell) THEN <<"untouched">>
  ELSE IF sent[MaxOf({k \in 1..Len(sent) : C17_Writes(k, cell)})].name = "fill"
    THEN C17_Air
  ELSE <<sent[MaxOf({k \in 1..Len(sent) : C17_Writes(k, cell)})].block_id_str,
         sent[MaxOf({k \in 1..Len(sent) : C17_Writes(k, cell)})].escaped_cmd_for_nbt>>

C17_Placements == {k \in 1..Len(sent) : sent[k].name = "setblock"}

\* C17: with the stacks in distinct columns, every block placed is in the
\* world at the end of the run, and no two placements share a cell
C17_BlocksSurvive ==
  (outcome = "completed" /\ C17_ColumnsDistinct) =>
    /\ \A k \in C17_Placements :
         C17_ContentAt(<<sent[k].x, sent[k].y, sent[k].z>>)
           = <<sent[k].block_id_str, sent[k].escaped_cmd_for_nbt>>
    /\ \A k, j \in C17_Placements :
         k # j => <<sent[k].x, sent[k].y, sent[k].z>> # <<sent[j].x, sent[j].y, sent[j].z>>

\* a run that placed a block at the default origin, moved to another column,
\* cleared it and placed a block there has completed
C17_Witness ==
  /\ outcome = "completed"
  /\ C17_ColumnsDistinct
  /\ C17_Stacks = {0, 2}
  /\ Len(sent) = 3
  /\ sent[2].name = "fill"
  /\ C17_ContentAt(<<0, 60, 0>>) = <<sent[1].block_id_str, sent[1].escaped_cmd_for_nbt>>


(***************************************************************************)
(* C18.  After a Move(x, y, z) with y <= 128 the k-th placement of its     *)
(* stack targets a cell of the cleared region exactly when k <= 129 - y:   *)
(* the height of a stack is not bounded, so the placements from the        *)
(* (130 - y)-th on go above Y 128, to cells that were never cleared.       *)
(* After a Move with y > 128 no placement targets a cleared cell.          *)
(***************************************************************************)
C18_Target == <<inflight[1].x, inflight[1].y, inflight[1].z>>

\* some clear entered so far covers the cell
C18_Cleared(cell) ==
  \E j \in 1..Len(sent) : sent[j].name = "fill" /\ C17_Writes(j, cell)

\* C18: which placements of a Move's stack fall in a cleared cell
C18_ClearedUpTo128Only ==
  (PlacingCommand /\ C16_StackMove > 0) =>
    /\ instructions[C16_StackMove].y <= 128 =>
         /\ C17_Writes(C16_ClearIndex, C18_Target)
              <=> CommandsSince(idx) <= 129 - instructions[C16_StackMove].y
         /\ CommandsSince(idx) >= 130 - instructions[C16_StackMove].y =>
              /\ inflight[1].y > 128
              /\ ~C18_Cleared(C18_Target)
    /\ instructions[C16_StackMove].y > 128 => ~C18_Cleared(C18_Target)

\* the second placement after a Move to Y 128 was entered, at Y 129
C18_Witness ==
  /\ pc = "exec_wait"
  /\ PlacingCommand
  /\ C16_StackMove > 0
  /\ instructions[C16_StackMove].y = 128
  /\ CommandsSince(idx) = 2
  /\ inflight[1].y = 129
  /\ ~C18_Cleared(C18_Target)


(***************************************************************************)
(* C19.  Whether a line is a move depends on a prefix of the trimmed line  *)
(* only: a trimmed line that begins with "# move, <num>, <num>, <num>" is  *)
(* a Move with the fields of that prefix whatever follows it (the rest is  *)
(* dropped, the line is neither a Command nor warned about), and every     *)
(* line on which the move pattern matches yields a Move, so that no line   *)
(* ever produces the warning.                                              *)
(***************************************************************************)
C19_Matches(raw) == ~SkippableLine(raw) /\ move_match(strip(raw)).matched

\* the parser has just appended the instruction of line n
C19_JustRead(n) == pc = "read" /\ line_number = n + 1

\* C19: a line the move pattern matches yields a Move with the fields of the
\* matched prefix; no line is warned about
C19_MatchedPrefixIsMove ==
  /\ \A n \in 1..Len(lines) :
       (LineProcessed(n) /\ C19_Matches(lines[n])) =>
         /\ outcome # "uncaught_exception"
         /\ WarningsFor(n) = 0
         /\ C19_JustRead(n) =>
              /\ instructions # << >>
              /\ instructions[Len(instructions)] =
                   MoveInstr(Truncation(move_match(strip(lines[n])).g1),
                             Truncation(move_match(strip(lines[n])).g2),
                             Truncation(move_match(strip(lines[n])).g3))
              /\ lines[n] = L_tail =>
                   instructions[Len(instructions)] = MoveInstr(3, 128, 4)
  /\ ~Printed("warning")

====
